---- MODULE Spec2Model ----
(***************************************************************************)
(* Interview backend: dialogflow_interview.py, dialogflow_voice.py.        *)
(*                                                                         *)
(* The store is modelled per session id and per key (save_to_database /    *)
(* get_from_database).  Every handler is a request that runs in a slot of  *)
(* req; a handler is cut at its external interactions (one storage read,   *)
(* one storage write, one platform call per step), which are the points    *)
(* at which two requests served by different threads can interleave.       *)
(* Spec serves one request at a time; ConcSpec lets NumProcs requests       *)
(* overlap.                                                                *)
(*                                                                         *)
(* Texts are pairs <<tag, n>>; the empty string is <<>>.  The n-th request *)
(* hears the platform question <<"q", n>> and carries the answer           *)
(* <<"a", n>>, so that every question the platform produces and every      *)
(* answer a user gives is distinguishable from every other one.            *)
(***************************************************************************)
EXTENDS Integers, Sequences, FiniteSets, TLC

VARIABLES db, req, nreq, nfail, before, hist, clientLast

vars == <<db, req, nreq, nfail, before, hist, clientLast>>

\* ------------------------------------------------------------------ bounds

\* Number of request slots (requests that can be in flight together).
NumProcs == 2
\* Number of requests issued in one behaviour.
MaxRequests == 3
\* Number of external failures (platform, model or storage calls that raise)
\* in one behaviour.
MaxFailures == 1

Procs == 1..NumProcs

\* The session id the requests use.
SessionIds == {"s1"}

\* ------------------------------------------------------------------- texts

Empty == <<>>

QText(n) == <<"q", n>>

AText(n) == <<"a", n>>

\* Python truthiness of a str / None: `if x`, `if not x`.
Truthy(t) == t # Empty

StartFallback == <<"Thank you for your interest. Let's begin the interview.", 0>>

AudioFallback == <<"I didn't catch that. Could you please repeat your answer?", 0>>

\* ----------------------------------------------------------------- intents

\* display names of the intents the platform may match, as character lists
NoIntent == <<>>

IntentNames ==
    { <<"N", "e", "x", "t">>,
      <<"E", "n", "d">> }

LowerKeepingCase(c) == c

\* str.lower(), character by character
Lower(c) ==
    CASE c = "N" -> "n"
      [] c = "E" -> "e"
      [] c = "D" -> "d"
      [] c = "C" -> "c"
      [] c = "F" -> "f"
      [] c = "O" -> "o"
      [] c = "W" -> "w"
      [] c = "I" -> "i"
      [] OTHER -> c

LowerStr(s) == [i \in 1..Len(s) |-> Lower(s[i])]

Keywords ==
    { <<"e", "n", "d">>,
      <<"c", "o", "m", "p", "l", "e", "t", "e">>,
      <<"f", "i", "n", "i", "s", "h">>,
      <<"d", "o", "n", "e">> }

\* Python `needle in hay`
Contains(hay, needle) ==
    \E i \in 0..(Len(hay) - Len(needle)) :
        \A j \in 1..Len(needle) : hay[i + j] = needle[j]

IsEnd(intent_name) ==
    \E keyword \in Keywords : Contains(LowerStr(intent_name), keyword)

\* ------------------------------------------------------------------- store

Keys == {"transcript", "last_agent_question", "session_info", "score_report", "scored_at"}

NoInfo == [role |-> "", resume_summary |-> "", persona |-> "", difficulty |-> "",
           started_at |-> 0, mode |-> ""]

\* the object json.loads builds; keys: the keys it has
NoReport == [keys |-> {}, overall_score |-> 0, summary |-> "", question_scores |-> <<>>]

EmptySession ==
    [keys |-> {}, transcript |-> <<>>, last_agent_question |-> Empty,
     session_info |-> NoInfo, score_report |-> NoReport, scored_at |-> 0]

\* The text of a session id and of a key, as the list of its parts between
\* underscores: two texts are equal exactly when their lists are.
IdParts(session_id) ==
    CASE session_id = "s1" -> <<"s1">>
      [] session_id = "s1_score" -> <<"s1", "score">>

KeyParts(key) ==
    CASE key = "transcript" -> <<"transcript">>
      [] key = "last_agent_question" -> <<"last", "agent", "question">>
      [] key = "session_info" -> <<"session", "info">>
      [] key = "score_report" -> <<"score", "report">>
      [] key = "scored_at" -> <<"scored", "at">>

db_keyWithoutSession(session_id, key) == KeyParts(key)

\* db_key = f"{session_id}_{key}", the key of the key-value backend
db_key(session_id, key) == IdParts(session_id) \o KeyParts(key)

\* db_client.collection("interview_sessions").document(session_id), and the
\* field key of that document: the address in the document backend
doc_ref(session_id, key) == <<"interview_sessions", session_id, key>>

\* save_to_database(session_id, key, value): db[db_key] = value.  The store
\* is kept per session id and key; the write reaches every session id and
\* key whose db_key is the one written.
save_to_database(d, session_id, key, value) ==
    [s \in DOMAIN d |->
        LET hit == { k \in Keys : db_key(s, k) = db_key(session_id, key) }
            put(k) == IF k \in hit THEN value ELSE d[s][k]
        IN  IF hit = {} THEN d[s]
            ELSE [keys |-> d[s].keys \cup hit,
                  transcript |-> put("transcript"),
                  last_agent_question |-> put("last_agent_question"),
                  session_info |-> put("session_info"),
                  score_report |-> put("score_report"),
                  scored_at |-> put("scored_at")]]

get_last_agent_questionOrGreeting(d, session_id) ==
    IF "last_agent_question" \in d[session_id].keys
    THEN d[session_id].last_agent_question
    ELSE StartFallback

\* get_from_database for the key last_agent_question: None when absent.
\* None and "" are both falsy and the handlers only test truthiness.
get_last_agent_question(d, session_id) ==
    IF "last_agent_question" \in d[session_id].keys
    THEN d[session_id].last_agent_question
    ELSE Empty

\* get_transcript: the stored list, [] when absent
get_transcript(d, session_id) ==
    IF "transcript" \in d[session_id].keys
    THEN d[session_id].transcript
    ELSE <<>>

\* ------------------------------------------------------- transcript entry

TurnNumberZeroBased(transcript) == Len(transcript)

\* turn_number = len(transcript) + 1
TurnNumber(transcript) == Len(transcript) + 1

NewEntry(transcript, question, answer) ==
    [turn |-> TurnNumber(transcript), question |-> question, answer |-> answer]

AppendedInFront(transcript, question, answer) ==
    <<NewEntry(transcript, question, answer)>> \o transcript

\* transcript.append(entry)
Appended(transcript, question, answer) ==
    Append(transcript, NewEntry(transcript, question, answer))


\* ---------------------------------------------------------------- requests

StartOps == {"start_text", "start_voice"}

ExchangeOps == {"text", "audio"}

\* arguments of start_interview_session / start_voice_interview_session
StartInputs ==
    { [role_selection |-> <<"I want to interview for the ", "Software Engineer", " role.">>,
       resume_summary |-> "", persona |-> "", difficulty |-> "Medium"],
      [role_selection |-> <<"I want to interview for the ", "Data Scientist", " role.">>,
       resume_summary |-> "Expert in Python", persona |-> "strict", difficulty |-> "Hard"] }

NoInput == [role_selection |-> Empty, resume_summary |-> "", persona |-> "", difficulty |-> ""]

\* request.json of POST /api/voice-interview/start, as a set of <<key, value>>
\* pairs: a body with the role only, a body with every field, a body without
\* role and a body without session_id
StartBodies(session_id) ==
    { { <<"session_id", session_id>>, <<"role", "Software Engineer">> },
      { <<"session_id", session_id>>, <<"role", "Data Scientist">>,
        <<"resumeText", "Expert in Python">>, <<"difficulty", "Hard">>,
        <<"persona", "strict">> },
      { <<"session_id", session_id>>, <<"difficulty", "Hard">> },
      { <<"role", "Software Engineer">> } }

\* data.get(key) is not None
Has(data, key) == \E kv \in data : kv[1] = key

\* data.get(key, default)
Get(data, key, default) ==
    IF Has(data, key) THEN (CHOOSE kv \in data : kv[1] = key)[2] ELSE default

\* `if not session_id or not role:` of start_voice_interview
StartBodyAcceptedWithSession(data) ==
    Has(data, "session_id") /\ Get(data, "session_id", "") # ""

StartBodyAccepted(data) ==
    /\ Has(data, "session_id") /\ Get(data, "session_id", "") # ""
    /\ Has(data, "role") /\ Get(data, "role", "") # ""

\* the arguments start_voice_interview passes to
\* start_voice_interview_session: role_selection, resume_summary and
\* difficulty; persona is not passed and keeps its default ""
start_voice_interview(data) ==
    [role_selection |-> <<"I want to interview for the ", Get(data, "role", ""), " role.">>,
     resume_summary |-> Get(data, "resumeText", ""),
     persona |-> "",
     difficulty |-> Get(data, "difficulty", "Medium")]

\* the DetectIntentRequest a handler sends: query_params.parameters as a set
\* of <<name, value>> pairs (empty when the request has no query_params)
\* audio_encoding, sample_rate: the InputAudioConfig of an audio input
NoRequest ==
    [sent |-> FALSE, query_params |-> {}, input |-> Empty,
     audio_encoding |-> <<>>, sample_rate |-> 0]

\* output_audio: the synthesised speech, empty when the platform sends none
NoResponse ==
    [text |-> Empty, intent |-> NoIntent, query_text |-> Empty,
     output_audio |-> Empty]

\* the session id of a request that names none
NoSession == ""

IdleReq ==
    [pc |-> "idle", op |-> "none", sid |-> "s1", n |-> 0,
     route |-> "none", content_type |-> "", body |-> {}, files |-> {},
     calls |-> 0, replies |-> 0, error |-> "none",
     args |-> NoInput, user_message |-> Empty, audio_data |-> Empty,
     audio_encoding |-> "", sample_rate |-> 0,
     laq |-> Empty, tr |-> <<>>,
     request |-> NoRequest, response |-> NoResponse,
     status |-> "none", reply |-> Empty, is_end |-> FALSE,
     score_data |-> NoReport,
     dbfail |-> FALSE, paired |-> FALSE]

NoHist == [started |-> FALSE, exchanges |-> 0, answered |-> 0, replaced |-> FALSE]

InFlight(r) == r.pc \notin {"idle", "done"}

\* A new request in a free slot.
NewReq(session_id, op) ==
    [IdleReq EXCEPT !.op = op, !.sid = session_id, !.n = nreq + 1]

\* A request arrives: it gets the next serial number.
Arrive ==
    /\ nreq < MaxRequests
    /\ nreq' = nreq + 1
    /\ UNCHANGED <<db, nfail>>

\* What the session has been through, recorded when a request returns:
\* whether the last start succeeded and nothing failed since, how many
\* exchanges returned since that start, how many of them carried an answer
\* text (a typed message, or a non-empty speech-to-text result), and whether
\* each of them returned a new question (a reply that is not empty, with
\* is_end false).
HistAfter(r) ==
    LET h == hist[r.sid]
        clean == r.status = "ok" /\ ~r.dbfail
    IN  IF r.status = "bad_request"
        THEN h
        ELSE IF r.op \in StartOps
        THEN [started |-> clean, exchanges |-> 0, answered |-> 0, replaced |-> clean]
        ELSE IF r.op \in ExchangeOps
        THEN [started |-> h.started /\ clean,
              exchanges |-> h.exchanges + 1,
              answered |-> h.answered +
                  (IF r.op = "text" \/ Truthy(r.response.query_text) THEN 1 ELSE 0),
              replaced |-> h.replaced /\ clean /\ Truthy(r.reply) /\ ~r.is_end]
        ELSE h

\* One step of request p, leaving it as r2.
Step(p, r2) == req' = [req EXCEPT ![p] = r2]

\* What a caller that makes one call after the other observes of the step
\* its request (slot p) takes: the store as the request found it, the
\* session's history and the reply it got last.
Observe(p) ==
    LET r2 == req'[p]
        returns == req[p].pc # "done" /\ r2.pc = "done"
    IN  /\ before' = IF nreq' # nreq THEN db ELSE before
        /\ hist' = IF returns /\ r2.status # "bad_request"
                   THEN [hist EXCEPT ![r2.sid] = HistAfter(r2)]
                   ELSE hist
        /\ clientLast' = IF returns /\ r2.status = "ok" /\ r2.op \in StartOps \cup ExchangeOps
                         THEN [clientLast EXCEPT ![r2.sid] = r2.reply]
                         ELSE clientLast

\* `raise`: the handler ends with the error
Raised(r) == [r EXCEPT !.pc = "done", !.status = "error"]

\* `raise` of the error named
RaisedAs(r, error) == [Raised(r) EXCEPT !.error = error]

\* `return jsonify({"error": ...}), 400`: the route ends before any handler
Rejected(r) == [r EXCEPT !.pc = "done", !.status = "bad_request"]

\* an external call (detect_intent, generate_content) is issued
Called(r) == [r EXCEPT !.calls = @ + 1]

\* the external call returned a response
Replied(r) == [r EXCEPT !.replies = @ + 1]

\* `return {...}`
Returned(r) == [r EXCEPT !.pc = "done", !.status = "ok"]

\* an external call (platform, model, storage) that returns
Ok == nfail' = nfail

\* an external call that raises
Fails == nfail < MaxFailures /\ nfail' = nfail + 1

Init ==
    /\ db = [s \in SessionIds |-> EmptySession]
    /\ req = [p \in Procs |-> IdleReq]
    /\ nreq = 0
    /\ nfail = 0
    /\ before = db
    /\ hist = [s \in SessionIds |-> NoHist]
    /\ clientLast = [s \in SessionIds |-> Empty]

\* ------------------------------------------------------------------- start

\* custom_params of start_interview_session / start_voice_interview_session
CustomParamsResumeOnly(args) ==
    { <<"candidate_resume_summary", args.resume_summary>> }

CustomParams(args) ==
    { <<"candidate_resume_summary", args.resume_summary>>,
      <<"interviewer_persona", args.persona>>,
      <<"difficulty_level", args.difficulty>> }

StartRequest(args) ==
    [NoRequest EXCEPT !.sent = TRUE, !.query_params = CustomParams(args),
                      !.input = args.role_selection]

StartReplyNoFallback(text) == text

\* if not agent_response: agent_response = "Thank you for your interest. ..."
StartReply(text) == IF Truthy(text) THEN text ELSE StartFallback

SessionInfo(r) ==
    [role |-> r.args.role_selection, resume_summary |-> r.args.resume_summary,
     persona |-> r.args.persona, difficulty |-> r.args.difficulty,
     started_at |-> r.n, mode |-> IF r.op = "start_voice" THEN "voice" ELSE ""]

\* start_interview_session is called with its arguments;
\* start_voice_interview_session is called by the route start_voice_interview
BeginStart(p, session_id) ==
    /\ ~InFlight(req[p])
    /\ \/ \E args \in StartInputs :
             Step(p, [NewReq(session_id, "start_text") EXCEPT
                          !.pc = "start_call", !.args = args])
       \/ \E data \in StartBodies(session_id) :
             LET r == [NewReq(Get(data, "session_id", NoSession), "start_voice") EXCEPT
                           !.route = "start", !.body = data]
             IN  Step(p, IF StartBodyAccepted(data)
                         THEN [r EXCEPT !.pc = "start_call",
                                        !.args = start_voice_interview(data)]
                         ELSE Rejected(r))
    /\ Arrive

StartCallRetrying(p) ==
    LET r == req[p]
        sent == Called([r EXCEPT !.request = StartRequest(r.args)])
    IN  /\ r.pc = "start_call"
        /\ \/ Fails /\ Step(p, sent)
           \/ /\ Ok
              /\ \E text \in {Empty, QText(r.n)} :
                    Step(p, [Replied(sent) EXCEPT !.pc = "init_transcript",
                                         !.response = [NoResponse EXCEPT !.text = text],
                                         !.reply = StartReply(text)])
        /\ UNCHANGED <<db, nreq>>

\* response = dialogflow_client.detect_intent(request=request), and the
\* extraction of the first text message
StartCall(p) ==
    LET r == req[p]
        sent == Called([r EXCEPT !.request = StartRequest(r.args)])
    IN  /\ r.pc = "start_call"
        /\ \/ Fails /\ Step(p, RaisedAs(sent, "platform"))
           \/ /\ Ok
              /\ \E text \in {Empty, QText(r.n)} :
                    Step(p, [Replied(sent) EXCEPT !.pc = "init_transcript",
                                         !.response = [NoResponse EXCEPT !.text = text],
                                         !.reply = StartReply(text)])
        /\ UNCHANGED <<db, nreq>>

\* The three saves share one try block: the first that fails skips the rest.
StartSave(p, at, key, value, next) ==
    LET r == req[p]
    IN  /\ r.pc = at
        /\ \/ /\ Ok
              /\ db' = save_to_database(db, r.sid, key, value)
              /\ Step(p, IF next = "done" THEN Returned(r) ELSE [r EXCEPT !.pc = next])
           \/ /\ Fails
              /\ db' = db
              /\ Step(p, Returned([r EXCEPT !.dbfail = TRUE]))
        /\ UNCHANGED nreq

InitTranscript(p) == StartSave(p, "init_transcript", "transcript", <<>>, "init_laq")

InitLastQuestion(p) ==
    StartSave(p, "init_laq", "last_agent_question", req[p].reply, "init_info")

InitSessionInfo(p) ==
    StartSave(p, "init_info", "session_info", SessionInfo(req[p]), "done")


\* ---------------------------------------------------------------- exchange

AnswerKeepingAudio(r) == IF r.op = "text" THEN r.user_message ELSE r.audio_data

\* the answer save_transcript_entry is given: user_message in detect_intent,
\* the speech-to-text result user_transcript in detect_intent_with_audio
Answer(r) == IF r.op = "text" THEN r.user_message ELSE r.response.query_text

Goto(r, pc) == IF pc = "done" THEN Returned(r) ELSE [r EXCEPT !.pc = pc]

AfterPendingCallFirst(r) == "call"

\* Where a handler goes once last_agent_question is known.
\* detect_intent: `if last_agent_question:` save the pair, then call.
\* detect_intent_with_audio: call.
AfterPending(r) ==
    IF r.op = "text" /\ Truthy(r.laq) THEN "read_transcript" ELSE "call"

\* Where a handler goes after save_transcript_entry (or after skipping it).
\* detect_intent: the platform call.
\* detect_intent_with_audio: `if agent_response_text and not is_end:`.
AfterSave(r) ==
    IF r.op = "text" THEN "call"
    ELSE IF Truthy(r.reply) /\ ~r.is_end THEN "save_laq" ELSE "done"

AfterCallAudioNoGuard(r) ==
    IF r.op = "text"
    THEN IF Truthy(r.reply) /\ ~r.is_end THEN "save_laq" ELSE "done"
    ELSE IF Truthy(r.laq) THEN "read_transcript" ELSE AfterSave(r)

AfterCallIgnoringEnd(r) ==
    IF r.op = "text"
    THEN IF Truthy(r.reply) THEN "save_laq" ELSE "done"
    ELSE IF Truthy(r.laq) /\ Truthy(r.response.query_text)
         THEN "read_transcript" ELSE AfterSave(r)

AfterCallForgetsQuestion(r) ==
    IF r.op = "text"
    THEN "done"
    ELSE IF Truthy(r.laq) /\ Truthy(r.response.query_text)
         THEN "read_transcript" ELSE "done"

\* Where a handler goes after the platform call.
\* detect_intent: `if agent_response and not is_end:`.
\* detect_intent_with_audio: `if last_agent_question and user_transcript:`.
AfterCall(r) ==
    IF r.op = "text"
    THEN IF Truthy(r.reply) /\ ~r.is_end THEN "save_laq" ELSE "done"
    ELSE IF Truthy(r.laq) /\ Truthy(r.response.query_text)
         THEN "read_transcript" ELSE AfterSave(r)

\* the members of AudioEncoding, by name
AudioEncoding(name) == <<"AudioEncoding", name>>

EncodingMapNames ==
    { "AUDIO_ENCODING_WEBM_OPUS", "AUDIO_ENCODING_LINEAR_16",
      "AUDIO_ENCODING_MULAW", "AUDIO_ENCODING_ALAW" }

\* encoding_map.get(audio_encoding, AudioEncoding.AUDIO_ENCODING_WEBM_OPUS)
audio_encoding_enum(audio_encoding) ==
    IF audio_encoding \in EncodingMapNames
    THEN AudioEncoding(audio_encoding)
    ELSE AudioEncoding("AUDIO_ENCODING_WEBM_OPUS")

\* QueryInput: the text, or the audio with its InputAudioConfig
QueryInput(r) ==
    [NoRequest EXCEPT
        !.sent = TRUE,
        !.input = IF r.op = "text" THEN r.user_message ELSE r.audio_data,
        !.audio_encoding = IF r.op = "audio"
                           THEN audio_encoding_enum(r.audio_encoding) ELSE <<>>,
        !.sample_rate = IF r.op = "audio" THEN r.sample_rate ELSE 0]

ExchangeRequestWithParams(r) ==
    [QueryInput(r) EXCEPT !.query_params = CustomParams(db[r.sid].session_info)]

\* DetectIntentRequest(session=..., query_input=...): no query_params
ExchangeRequest(r) == QueryInput(r)

ExchangeReplyAsItIs(op, text) == text

\* detect_intent returns the platform text as it is; detect_intent_with_audio
\* substitutes "I didn't catch that. ..." for an empty one
ExchangeReply(op, text) ==
    IF op = "audio" /\ ~Truthy(text) THEN AudioFallback ELSE text

\* questions: what the caller may pass as last_agent_question;
\* messages: what the caller may pass as user_message
BeginExchange(p, session_id, questions, messages) ==
    /\ ~InFlight(req[p])
    /\ \E last_agent_question \in questions :
          \/ \E user_message \in messages :
                LET r == [NewReq(session_id, "text") EXCEPT
                              !.user_message = user_message, !.laq = last_agent_question]
                IN  Step(p, [r EXCEPT !.pc = IF Truthy(last_agent_question)
                                              THEN AfterPending(r) ELSE "read_laq"])
          \/ LET r == [NewReq(session_id, "audio") EXCEPT
                           !.audio_data = <<"audio", nreq + 1>>,
                           !.audio_encoding = "AUDIO_ENCODING_WEBM_OPUS",
                           !.sample_rate = 24000,
                           !.laq = last_agent_question]
             IN  Step(p, [r EXCEPT !.pc = IF Truthy(last_agent_question)
                                           THEN AfterPending(r) ELSE "read_laq"])
    /\ Arrive

\* last_agent_question = get_from_database(session_id, "last_agent_question"),
\* in a try block of its own
ReadLastQuestion(p) ==
    LET r == req[p]
    IN  /\ r.pc = "read_laq"
        /\ \/ /\ Ok
              /\ LET r2 == [r EXCEPT !.laq = get_last_agent_question(db, r.sid)]
                 IN  Step(p, Goto(r2, AfterPending(r2)))
           \/ /\ Fails
              /\ LET r2 == [r EXCEPT !.dbfail = TRUE]
                 IN  Step(p, Goto(r2, AfterPending(r2)))
        /\ UNCHANGED <<db, nreq>>

\* save_transcript_entry, first half: transcript = get_transcript(session_id)
ReadTranscript(p) ==
    LET r == req[p]
    IN  /\ r.pc = "read_transcript"
        /\ \/ /\ Ok
              /\ Step(p, [r EXCEPT !.pc = "write_transcript",
                                   !.tr = get_transcript(db, r.sid)])
           \/ /\ Fails
              /\ LET r2 == [r EXCEPT !.dbfail = TRUE]
                 IN  Step(p, Goto(r2, AfterSave(r2)))
        /\ UNCHANGED <<db, nreq>>

WriteTranscriptOntoStored(p) ==
    LET r == req[p]
    IN  /\ r.pc = "write_transcript"
        /\ \/ /\ Ok
              /\ db' = save_to_database(db, r.sid, "transcript",
                                        Appended(get_transcript(db, r.sid), r.laq, Answer(r)))
              /\ LET r2 == [r EXCEPT !.paired = TRUE]
                 IN  Step(p, Goto(r2, AfterSave(r2)))
           \/ /\ Fails
              /\ db' = db
              /\ LET r2 == [r EXCEPT !.dbfail = TRUE]
                 IN  Step(p, Goto(r2, AfterSave(r2)))
        /\ UNCHANGED nreq

\* save_transcript_entry, second half:
\* save_to_database(session_id, "transcript", transcript)
WriteTranscript(p) ==
    LET r == req[p]
    IN  /\ r.pc = "write_transcript"
        /\ \/ /\ Ok
              /\ db' = save_to_database(db, r.sid, "transcript",
                                        Appended(r.tr, r.laq, Answer(r)))
              /\ LET r2 == [r EXCEPT !.paired = TRUE]
                 IN  Step(p, Goto(r2, AfterSave(r2)))
           \/ /\ Fails
              /\ db' = db
              /\ LET r2 == [r EXCEPT !.dbfail = TRUE]
                 IN  Step(p, Goto(r2, AfterSave(r2)))
        /\ UNCHANGED nreq

OnCallFailureForgetsQuestion(d, r) ==
    save_to_database(d, r.sid, "last_agent_question", Empty)

\* `except Exception as e:` of detect_intent / detect_intent_with_audio:
\* prints and re-raises; the store stays as it is
OnCallFailure(d, r) == d

\* response = dialogflow_client.detect_intent(request=request), and the
\* extraction of reply text, intent name and is_end.  intents: the display
\* names the platform may answer with; speech: whether it may send
\* synthesised speech (asked for by the audio exchange only)
ExchangeCallOf(p, intents, speech) ==
    LET r == req[p]
        sent == Called([r EXCEPT !.request = ExchangeRequest(r)])
    IN  /\ r.pc = "call"
        /\ \/ /\ Fails
              /\ db' = OnCallFailure(db, r)
              /\ Step(p, RaisedAs(sent, "platform"))
           \/ /\ Ok
              /\ db' = db
              /\ \E text \in {Empty, QText(r.n)}, intent \in intents,
                    query_text \in IF r.op = "text" THEN {r.user_message}
                                   ELSE {Empty, AText(r.n)},
                    output_audio \in IF r.op = "text" THEN {Empty}
                                     ELSE {IF a THEN <<"tts", r.n>> ELSE Empty : a \in speech} :
                    LET r2 == [Replied(sent) EXCEPT
                                  !.response = [text |-> text, intent |-> intent,
                                                query_text |-> query_text,
                                                output_audio |-> output_audio],
                                  !.reply = ExchangeReply(r.op, text),
                                  !.is_end = IsEnd(intent)]
                    IN  Step(p, Goto(r2, AfterCall(r2)))
        /\ UNCHANGED nreq

ExchangeCall(p) == ExchangeCallOf(p, {NoIntent} \cup IntentNames, {TRUE})

\* save_to_database(session_id, "last_agent_question", agent_response)
SaveLastQuestion(p) ==
    LET r == req[p]
    IN  /\ r.pc = "save_laq"
        /\ \/ /\ Ok
              /\ db' = save_to_database(db, r.sid, "last_agent_question", r.reply)
              /\ Step(p, Returned(r))
           \/ /\ Fails
              /\ db' = db
              /\ Step(p, Returned([r EXCEPT !.dbfail = TRUE]))
        /\ UNCHANGED nreq


\* ------------------------------------------------------------------- score

\* The reply of the generative model (response.text) is a sequence of
\* lexemes:
\*   "F"  a code fence ```          "j"  the label json
\*   "w"  whitespace                "p"  prose without braces or backticks
\*   "n"  a bare JSON number        "{" "}"  the braces of a JSON object
\*   "["  "question_scores": [      "]"  the end of that list
\*   "e7" "e11"  question_number, score (7 or 11) and justification of an entry
\*   "O7" "O11"  "overall_score": 7 or 11
\*   "S"   "summary": "ok"
\*   "S!"  "summary": a string that has a } followed by ``` in it

\* What the regular expressions see of a lexeme: its character classes, with
\* the lexeme each comes from and whether it starts / ends that lexeme.
Class(x) == IF x \in {"F", "j", "w", "{", "}"} THEN x ELSE "o"

AtomsOf(x, i) ==
    IF x = "S!"
    THEN << [c |-> "o", i |-> i, first |-> TRUE, last |-> FALSE],
            [c |-> "}", i |-> i, first |-> FALSE, last |-> FALSE],
            [c |-> "F", i |-> i, first |-> FALSE, last |-> FALSE],
            [c |-> "o", i |-> i, first |-> FALSE, last |-> TRUE] >>
    ELSE << [c |-> Class(x), i |-> i, first |-> TRUE, last |-> TRUE] >>

RECURSIVE AtomsFrom(_, _)
AtomsFrom(response_text, i) ==
    IF i > Len(response_text) THEN <<>>
    ELSE AtomsOf(response_text[i], i) \o AtomsFrom(response_text, i + 1)

Atoms(response_text) == AtomsFrom(response_text, 1)

At(A, k, c) == k >= 1 /\ k <= Len(A) /\ A[k].c = c

Min(S) == CHOOSE x \in S : \A y \in S : x <= y

\* \s*
RECURSIVE SkipSpace(_, _)
SkipSpace(A, k) == IF At(A, k, "w") THEN SkipSpace(A, k + 1) ELSE k

\* [^{}]*
RECURSIVE SkipOther(_, _)
SkipOther(A, k) ==
    IF k <= Len(A) /\ A[k].c \notin {"{", "}"} THEN SkipOther(A, k + 1) ELSE k

\* r'```(?:json)?\s*(\{.*?\})\s*```' with re.DOTALL: where group 1 starts
\* for a fence at s (0 when the fence is not followed by a brace)
FenceBodyStart(A, s) ==
    LET a == SkipSpace(A, IF At(A, s + 1, "j") THEN s + 2 ELSE s + 1)
    IN  IF At(A, s, "F") /\ At(A, a, "{") THEN a ELSE 0

\* where group 1 may end: a } followed by optional whitespace and a fence
FenceBodyEnds(A, a) ==
    { b \in (a + 1)..Len(A) : A[b].c = "}" /\ At(A, SkipSpace(A, b + 1), "F") }

\* re.search: the leftmost fence that matches; .*? : the nearest end.
\* <<a, b>>, the span of group 1, or <<>> when there is no match.
FencedBlock(A) ==
    LET starts == { s \in 1..Len(A) :
                      /\ FenceBodyStart(A, s) # 0
                      /\ FenceBodyEnds(A, FenceBodyStart(A, s)) # {} }
    IN  IF starts = {} THEN <<>>
        ELSE LET a == FenceBodyStart(A, Min(starts))
             IN  <<a, Min(FenceBodyEnds(A, a))>>

\* r'\{[^{}]*(?:\{[^{}]*\}[^{}]*)*\}' from position k on, after the first
\* [^{}]*: the end of the match, 0 when there is none
RECURSIVE SpanRest(_, _)
SpanRest(A, k) ==
    IF At(A, k, "}") THEN k
    ELSE IF At(A, k, "{")
         THEN LET c == SkipOther(A, k + 1)
              IN  IF At(A, c, "}") THEN SpanRest(A, SkipOther(A, c + 1)) ELSE 0
         ELSE 0

BraceEnd(A, a) == IF At(A, a, "{") THEN SpanRest(A, SkipOther(A, a + 1)) ELSE 0

\* re.search: the leftmost brace that starts a match
BraceSpan(A) ==
    LET starts == { a \in 1..Len(A) : BraceEnd(A, a) # 0 }
    IN  IF starts = {} THEN <<>>
        ELSE <<Min(starts), BraceEnd(A, Min(starts))>>

NoParse == [ok |-> FALSE, dict |-> FALSE, value |-> NoReport]

RECURSIVE TrimLeft(_)
TrimLeft(text) ==
    IF text # <<>> /\ Head(text) = "w" THEN TrimLeft(Tail(text)) ELSE text

RECURSIVE TrimRight(_)
TrimRight(text) ==
    IF text # <<>> /\ text[Len(text)] = "w"
    THEN TrimRight(SubSeq(text, 1, Len(text) - 1)) ELSE text

ScoreOfClamped(x) == 7

ScoreOf(x) == IF x = "e7" \/ x = "O7" THEN 7 ELSE 11

\* the entries of the question_scores list, from position i on
RECURSIVE ParseEntries(_, _, _)
ParseEntries(text, i, scores) ==
    IF i > Len(text) THEN [ok |-> FALSE, next |-> i, scores |-> scores]
    ELSE IF text[i] = "]" THEN [ok |-> TRUE, next |-> i + 1, scores |-> scores]
    ELSE IF /\ i + 2 <= Len(text) /\ text[i] = "{"
            /\ text[i + 1] \in {"e7", "e11"} /\ text[i + 2] = "}"
         THEN ParseEntries(text, i + 3, Append(scores, ScoreOf(text[i + 1])))
         ELSE [ok |-> FALSE, next |-> i, scores |-> scores]

\* the members of an object, from position i on, up to its closing brace,
\* which has to be the end of the text
RECURSIVE ParseMembers(_, _, _)
ParseMembers(text, i, o) ==
    IF i > Len(text) THEN NoParse
    ELSE IF text[i] = "}"
         THEN IF i = Len(text) THEN [ok |-> TRUE, dict |-> TRUE, value |-> o] ELSE NoParse
    ELSE IF text[i] \in {"O7", "O11"}
         THEN ParseMembers(text, i + 1,
                  [o EXCEPT !.keys = @ \cup {"overall_score"},
                            !.overall_score = ScoreOf(text[i])])
    ELSE IF text[i] \in {"S", "S!"}
         THEN ParseMembers(text, i + 1,
                  [o EXCEPT !.keys = @ \cup {"summary"},
                            !.summary = IF text[i] = "S" THEN "ok" ELSE "tricky"])
    ELSE IF text[i] \in {"e7", "e11"}
         THEN ParseMembers(text, i + 1,
                  [o EXCEPT !.keys = @ \cup {"question_number", "score", "justification"}])
    ELSE IF text[i] = "["
         THEN LET e == ParseEntries(text, i + 1, <<>>)
              IN  IF e.ok
                  THEN ParseMembers(text, e.next,
                           [o EXCEPT !.keys = @ \cup {"question_scores"},
                                     !.question_scores = e.scores])
                  ELSE NoParse
    ELSE NoParse

\* json.loads(text): ok is FALSE for a JSONDecodeError; dict is FALSE for a
\* value that is not an object
json_loads(text) ==
    LET t == TrimRight(TrimLeft(text))
    IN  IF t = <<"n">> THEN [ok |-> TRUE, dict |-> FALSE, value |-> NoReport]
        ELSE IF Len(t) >= 2 /\ t[1] = "{" THEN ParseMembers(t, 2, NoReport)
        ELSE NoParse

\* json.loads of what a regular expression matched: the characters between
\* two places of the reply, which are JSON only if they are whole lexemes
LoadSpan(response_text, A, span) ==
    IF A[span[1]].first /\ A[span[2]].last
    THEN json_loads(SubSeq(response_text, A[span[1]].i, A[span[2]].i))
    ELSE NoParse

\* a policy that goes on to the next candidate when one does not parse
ExtractFallingThrough(response_text) ==
    LET A == Atoms(response_text)
        fenced == IF FencedBlock(A) # <<>>
                  THEN LoadSpan(response_text, A, FencedBlock(A)) ELSE NoParse
        braces == IF BraceSpan(A) # <<>>
                  THEN LoadSpan(response_text, A, BraceSpan(A)) ELSE NoParse
    IN  IF fenced.ok THEN fenced
        ELSE IF braces.ok THEN braces
        ELSE json_loads(response_text)

\* The extraction of score_interview: the fenced block if the first
\* expression matches, else the brace span if the second matches, else the
\* whole reply; one json.loads, of the candidate chosen.
Extract(response_text) ==
    LET A == Atoms(response_text)
    IN  IF FencedBlock(A) # <<>> THEN LoadSpan(response_text, A, FencedBlock(A))
        ELSE IF BraceSpan(A) # <<>> THEN LoadSpan(response_text, A, BraceSpan(A))
        ELSE json_loads(response_text)

ValidIgnoringOverall(score_data) ==
    /\ "summary" \in score_data.keys
    /\ score_data.question_scores # <<>>

\* the three `raise ValueError` of the validation;
\* question_scores = score_data.get('question_scores', [])
Valid(score_data) ==
    /\ "overall_score" \in score_data.keys
    /\ "summary" \in score_data.keys
    /\ score_data.question_scores # <<>>

\* ------------------------------------------------------- model replies

\* the most entries a question_scores list of a reply has
MaxEntries == 2

RECURSIVE EntriesText(_)
EntriesText(scores) ==
    IF scores = <<>> THEN <<>>
    ELSE <<"{", IF Head(scores) = 7 THEN "e7" ELSE "e11", "}">> \o EntriesText(Tail(scores))

\* the JSON text of an object, in the format the prompt asks for
Serialise(o) ==
    <<"{">>
    \o (IF "question_scores" \in o.keys
        THEN <<"[">> \o EntriesText(o.question_scores) \o <<"]">> ELSE <<>>)
    \o (IF "overall_score" \in o.keys
        THEN <<IF o.overall_score = 7 THEN "O7" ELSE "O11">> ELSE <<>>)
    \o (IF "summary" \in o.keys
        THEN <<IF o.summary = "ok" THEN "S" ELSE "S!">> ELSE <<>>)
    \o <<"}">>

Object(overall_score, summary, question_scores, listed) ==
    [keys |-> (IF overall_score # 0 THEN {"overall_score"} ELSE {})
                \cup (IF summary # "" THEN {"summary"} ELSE {})
                \cup (IF listed THEN {"question_scores"} ELSE {}),
     overall_score |-> overall_score, summary |-> summary,
     question_scores |-> question_scores]

\* the objects a reply may hold: each of the three fields present or not,
\* scores inside and outside 1..10, a summary with or without a fence in it,
\* and a list of 0..MaxEntries entries
ScoreObjects ==
    { Object(overall_score, summary, [i \in 1..k |-> score], listed) :
        overall_score \in {0, 7, 11}, summary \in {"", "ok", "tricky"},
        k \in 0..MaxEntries, score \in {7, 11}, listed \in {TRUE} }
    \cup { Object(overall_score, summary, <<>>, FALSE) :
        overall_score \in {0, 7, 11}, summary \in {"", "ok", "tricky"} }

Fenced(text) == <<"F", "j", "w">> \o text \o <<"w", "F">>

FencedNoLabel(text) == <<"F">> \o text \o <<"F">>

Prose == {<<>>, <<"p">>}

\* an answer as the prompt asks for it: num_questions entries, scores in 1..10
Good(num_questions) == Object(7, "ok", [i \in 1..num_questions |-> 7], TRUE)

\* the replies of the model: an object, a brace span that is not JSON, a
\* number or prose; bare or in a fenced block; after nothing, prose, an
\* object or a fenced block of prose; before nothing, prose or a fenced
\* object
AllReplies ==
    LET cores == { Serialise(o) : o \in ScoreObjects }
                    \cup { <<"{", "p", "}">>, <<"n">>, <<"p">> }
        wrapped == cores \cup { Fenced(c) : c \in cores }
                         \cup { FencedNoLabel(c) : c \in cores }
    IN  { pre \o w \o post :
            pre \in Prose \cup {Serialise(Good(1)), <<"F", "p", "F">>},
            w \in wrapped,
            post \in Prose \cup {Fenced(Serialise(Good(1)))} }

\* every object, as bare JSON, and a reply that is prose
ObjectReplies == { Serialise(o) : o \in ScoreObjects } \cup { <<"p">> }

\* a short list of replies for a transcript of num_questions turns
ModelReplies(num_questions) ==
    { <<"p">> \o Fenced(Serialise(Good(num_questions))),
      Serialise(Good(num_questions + 1)),
      Serialise(Object(0, "ok", [i \in 1..num_questions |-> 7], TRUE)),
      Serialise(Object(7, "ok", <<>>, TRUE)),
      <<"p">> }

\* ------------------------------------------------------- score_interview

BeginScore(p, session_id) ==
    /\ ~InFlight(req[p])
    /\ Step(p, [NewReq(session_id, "score") EXCEPT !.pc = "score_read"])
    /\ Arrive

ScoreReadAllowingEmpty(p) ==
    LET r == req[p]
    IN  /\ r.pc = "score_read"
        /\ \/ /\ Ok
              /\ Step(p, [r EXCEPT !.pc = "score_call", !.tr = get_transcript(db, r.sid)])
           \/ /\ Fails
              /\ Step(p, RaisedAs([r EXCEPT !.dbfail = TRUE], "fetch"))
        /\ UNCHANGED <<db, nreq>>

ScoreReadOnce(p) ==
    LET r == req[p]
        transcript == get_transcript(db, r.sid)
    IN  /\ r.pc = "score_read"
        /\ \/ /\ Ok
              /\ Step(p, IF Len(transcript) = 0 \/ "score_report" \in db[r.sid].keys
                         THEN RaisedAs(r, "no_transcript")
                         ELSE [r EXCEPT !.pc = "score_call", !.tr = transcript])
           \/ /\ Fails
              /\ Step(p, RaisedAs([r EXCEPT !.dbfail = TRUE], "fetch"))
        /\ UNCHANGED <<db, nreq>>

\* transcript = get_transcript(session_id); raise when it is empty
ScoreRead(p) ==
    LET r == req[p]
        transcript == get_transcript(db, r.sid)
    IN  /\ r.pc = "score_read"
        /\ \/ /\ Ok
              /\ Step(p, IF Len(transcript) = 0
                         THEN RaisedAs(r, "no_transcript")
                         ELSE [r EXCEPT !.pc = "score_call", !.tr = transcript])
           \/ /\ Fails
              /\ Step(p, RaisedAs([r EXCEPT !.dbfail = TRUE], "fetch"))
        /\ UNCHANGED <<db, nreq>>

AfterModelReplySkippingOverall(r, parsed) ==
    IF ~parsed.ok THEN RaisedAs(r, "parse")
    ELSE IF ~parsed.dict THEN RaisedAs(r, "type")
    ELSE IF ~ValidIgnoringOverall(parsed.value)
         THEN RaisedAs([r EXCEPT !.score_data = parsed.value], "missing_field")
         ELSE [r EXCEPT !.pc = "save_report", !.score_data = parsed.value]

AfterModelReplyStrictCount(r, parsed) ==
    IF ~parsed.ok THEN RaisedAs(r, "parse")
    ELSE IF ~parsed.dict THEN RaisedAs(r, "type")
    ELSE IF ~Valid(parsed.value) \/ Len(parsed.value.question_scores) # Len(r.tr)
         THEN RaisedAs([r EXCEPT !.score_data = parsed.value], "missing_field")
         ELSE [r EXCEPT !.pc = "save_report", !.score_data = parsed.value]

\* What follows the model's reply: a JSONDecodeError is raised as a
\* ValueError; score_data.get on a value that is not an object raises; a
\* missing field raises; else the object is saved.
AfterModelReply(r, parsed) ==
    IF ~parsed.ok THEN RaisedAs(r, "parse")
    ELSE IF ~parsed.dict THEN RaisedAs(r, "type")
    ELSE IF ~Valid(parsed.value)
         THEN RaisedAs([r EXCEPT !.score_data = parsed.value], "missing_field")
         ELSE [r EXCEPT !.pc = "save_report", !.score_data = parsed.value]

\* gemini_model.generate_content, the JSON extraction and the validation;
\* replies: the texts the model may answer with
ScoreCallOf(p, replies) ==
    LET r == req[p]
        sent == Called(r)
    IN  /\ r.pc = "score_call"
        /\ \/ Fails /\ Step(p, RaisedAs(sent, "api"))
           \/ /\ Ok
              /\ \E response_text \in replies :
                    LET got == [Replied(sent) EXCEPT !.response.text = response_text]
                    IN  Step(p, AfterModelReply(got, Extract(response_text)))
        /\ UNCHANGED <<db, nreq>>

ScoreCall(p) == ScoreCallOf(p, ModelReplies(Len(req[p].tr)))

SaveReportRaising(p) ==
    LET r == req[p]
    IN  /\ r.pc = "save_report"
        /\ \/ /\ Ok
              /\ db' = save_to_database(db, r.sid, "score_report", r.score_data)
              /\ Step(p, [r EXCEPT !.pc = "save_scored_at"])
           \/ /\ Fails
              /\ db' = db
              /\ Step(p, Raised([r EXCEPT !.dbfail = TRUE]))
        /\ UNCHANGED nreq

SaveReportKeepingFirst(p) ==
    LET r == req[p]
    IN  /\ r.pc = "save_report"
        /\ \/ /\ Ok
              /\ db' = IF "score_report" \in db[r.sid].keys THEN db
                       ELSE save_to_database(db, r.sid, "score_report", r.score_data)
              /\ Step(p, [r EXCEPT !.pc = "save_scored_at"])
           \/ /\ Fails
              /\ db' = db
              /\ Step(p, Returned([r EXCEPT !.dbfail = TRUE]))
        /\ UNCHANGED nreq

\* save_to_database(session_id, "score_report", score_data)
SaveReport(p) ==
    LET r == req[p]
    IN  /\ r.pc = "save_report"
        /\ \/ /\ Ok
              /\ db' = save_to_database(db, r.sid, "score_report", r.score_data)
              /\ Step(p, [r EXCEPT !.pc = "save_scored_at"])
           \/ /\ Fails
              /\ db' = db
              /\ Step(p, Returned([r EXCEPT !.dbfail = TRUE]))
        /\ UNCHANGED nreq

SaveScoredAtClosingSession(p) ==
    LET r == req[p]
    IN  /\ r.pc = "save_scored_at"
        /\ \/ /\ Ok
              /\ db' = save_to_database(save_to_database(db, r.sid, "scored_at", r.n),
                                        r.sid, "last_agent_question", Empty)
              /\ Step(p, Returned(r))
           \/ /\ Fails
              /\ db' = db
              /\ Step(p, Returned([r EXCEPT !.dbfail = TRUE]))
        /\ UNCHANGED nreq

\* save_to_database(session_id, "scored_at", ...)
SaveScoredAt(p) ==
    LET r == req[p]
    IN  /\ r.pc = "save_scored_at"
        /\ \/ /\ Ok
              /\ db' = save_to_database(db, r.sid, "scored_at", r.n)
              /\ Step(p, Returned(r))
           \/ /\ Fails
              /\ db' = db
              /\ Step(p, Returned([r EXCEPT !.dbfail = TRUE]))
        /\ UNCHANGED nreq

\* ------------------------------------------------------------- HTTP routes

\* File names are lists of parts: <<"answer", ".wav">> is answer.wav.
LowerName(part) ==
    CASE part = ".WAV" -> ".wav"
      [] part = ".MP3" -> ".mp3"
      [] part = "ANSWER" -> "answer"
      [] OTHER -> part

\* filename.lower().endswith(ext)
EndsWith(filename, ext) ==
    Len(filename) > 0 /\ LowerName(filename[Len(filename)]) = ext

Numerals == {"8000", "16000", "48000"}

\* int(text) of a form field; raises on a text that is no numeral
int(text) ==
    CASE text = "8000" -> 8000
      [] text = "16000" -> 16000
      [] text = "48000" -> 48000

\* base64.b64decode(text): "QUJD" are three bytes; "QUJ" has no valid
\* padding and raises
Base64Texts == {"QUJD", "AAEC"}

b64decode(text) ==
    CASE text = "QUJD" -> <<"audio", 0>>
      [] text = "AAEC" -> <<"audio", -1>>

\* Requests to POST /api/voice-interview/send-audio: the content type, the
\* uploaded files as <<field, filename>> pairs, and the form fields or the
\* JSON object as <<key, value>> pairs.
Multipart(files, data) ==
    [content_type |-> "multipart/form-data", files |-> files, data |-> data]

Json(data) == [content_type |-> "application/json", files |-> {}, data |-> data]

MultipartRequests(session_id) ==
    LET sid == <<"session_id", session_id>>
    IN  { Multipart({<<"audio", <<"answer", ".wav">>>>}, {sid}),
          Multipart({<<"audio", <<"answer", ".mp3">>>>}, {sid}),
          Multipart({<<"audio", <<"blob">>>>}, {sid}),
          Multipart({<<"audio", <<"ANSWER", ".WAV">>>>}, {sid, <<"sampleRate", "48000">>}),
          Multipart({<<"audio", <<"answer", ".webm">>>>},
                    {sid, <<"audioEncoding", "AUDIO_ENCODING_MULAW">>,
                          <<"sampleRate", "8000">>}),
          Multipart({<<"audio", <<"answer", ".wav">>>>}, {sid, <<"sampleRate", "fast">>}),
          Multipart({}, {sid}),
          Multipart({<<"audio", <<"answer", ".wav">>>>}, {}) }

JsonRequests(session_id) ==
    LET sid == <<"session_id", session_id>>
    IN  { Json({sid, <<"audio", "QUJD">>}),
          Json({sid, <<"audio", "AAEC">>, <<"sampleRate", 16000>>}),
          Json({sid, <<"audio", "QUJD">>,
                <<"audioEncoding", "AUDIO_ENCODING_LINEAR_16">>, <<"sampleRate", 16000>>}),
          Json({sid, <<"audio", "QUJD">>, <<"audioEncoding", "AUDIO_ENCODING_FLAC">>}),
          Json({sid, <<"audio", "QUJ">>}),
          Json({sid, <<"audio", "">>}),
          Json({sid}),
          Json({<<"audio", "QUJD">>}) }

IsMultipart(u) == u.content_type = "multipart/form-data"

\* the checks of send_audio that answer 400: `'audio' not in request.files`
\* and `if not session_id:` for an upload, `if not session_id or not
\* audio_base64:` for JSON
SendAudioAccepted(u) ==
    IF IsMultipart(u)
    THEN /\ Has(u.files, "audio")
         /\ Has(u.data, "session_id") /\ Get(u.data, "session_id", "") # ""
    ELSE /\ Has(u.data, "session_id") /\ Get(u.data, "session_id", "") # ""
         /\ Has(u.data, "audio") /\ Get(u.data, "audio", "") # ""

\* audio_encoding as send_audio selects it: the caller's audioEncoding, or
\* the default of the file's extension, or the default of the JSON route
SelectedEncoding(u) ==
    LET filename == Get(u.files, "audio", <<>>)
    IN  IF ~IsMultipart(u)
        THEN Get(u.data, "audioEncoding", "AUDIO_ENCODING_WEBM_OPUS")
        ELSE IF EndsWith(filename, ".wav")
        THEN Get(u.data, "audioEncoding", "AUDIO_ENCODING_LINEAR_16")
        ELSE IF EndsWith(filename, ".mp3")
        THEN Get(u.data, "audioEncoding", "AUDIO_ENCODING_MP3")
        ELSE Get(u.data, "audioEncoding", "AUDIO_ENCODING_WEBM_OPUS")

\* whether computing sample_rate and audio_data raises: int() of a form
\* field that is no numeral, b64decode of a text that is not base64
SendAudioRaises(u) ==
    IF IsMultipart(u)
    THEN Has(u.data, "sampleRate") /\ Get(u.data, "sampleRate", "") \notin Numerals
    ELSE Get(u.data, "audio", "") \notin Base64Texts

\* sample_rate as send_audio selects it
SelectedRate(u) ==
    LET filename == Get(u.files, "audio", <<>>)
    IN  IF ~IsMultipart(u)
        THEN Get(u.data, "sampleRate", 24000)
        ELSE IF Has(u.data, "sampleRate")
        THEN int(Get(u.data, "sampleRate", ""))
        ELSE IF EndsWith(filename, ".wav") THEN 16000 ELSE 24000

\* send_audio up to its call of detect_intent_with_audio, which is given no
\* last_agent_question
BeginSendAudio(p, session_id) ==
    /\ ~InFlight(req[p])
    /\ \E u \in MultipartRequests(session_id) \cup JsonRequests(session_id) :
          LET r == [NewReq(Get(u.data, "session_id", NoSession), "audio") EXCEPT
                        !.route = "send_audio", !.content_type = u.content_type,
                        !.body = u.data, !.files = u.files]
          IN  Step(p, IF ~SendAudioAccepted(u) THEN Rejected(r)
                      ELSE IF SendAudioRaises(u) THEN RaisedAs(r, "value")
                      ELSE [r EXCEPT
                               !.pc = "read_laq",
                               !.audio_data = IF IsMultipart(u)
                                              THEN <<"audio", nreq + 1>>
                                              ELSE b64decode(Get(u.data, "audio", "")),
                               !.audio_encoding = SelectedEncoding(u),
                               !.sample_rate = SelectedRate(u)])
    /\ Arrive

\* request.json of POST /api/voice-interview/score
ScoreBodies(session_id) ==
    { { <<"session_id", session_id>> },
      { <<"session_id", "">> },
      { <<"detailed", "yes">> } }

\* `if not session_id:` of score_voice_interview
ScoreBodyAccepted(data) ==
    Has(data, "session_id") /\ Get(data, "session_id", "") # ""

\* score_voice_interview up to its call of score_interview
BeginScoreRoute(p, session_id) ==
    /\ ~InFlight(req[p])
    /\ \E data \in ScoreBodies(session_id) :
          LET r == [NewReq(Get(data, "session_id", NoSession), "score") EXCEPT
                        !.route = "score", !.body = data]
          IN  Step(p, IF ScoreBodyAccepted(data)
                      THEN [r EXCEPT !.pc = "score_read"]
                      ELSE Rejected(r))
    /\ Arrive

HttpResponseAlwaysOk(r) ==
    [status |-> IF r.pc = "done" THEN 200 ELSE 0, error |-> "none"]

\* What a route answers with once its request has ended: the status code
\* and the "error" member of the JSON body ("none" when it has none).
\* `return jsonify({"error": ...}), 400`; `except Exception as e: return
\* jsonify({"error": str(e)}), 500`; otherwise 200, for send_audio with the
\* error "No audio response from Dialogflow" when the result has no audio.
HttpResponse(r) ==
    IF r.pc # "done" THEN [status |-> 0, error |-> "none"]
    ELSE IF r.status = "bad_request" THEN [status |-> 400, error |-> "required"]
    ELSE IF r.status = "error" THEN [status |-> 500, error |-> r.error]
    ELSE [status |-> 200,
          error |-> IF r.route = "send_audio" /\ ~Truthy(r.response.output_audio)
                    THEN "no_audio" ELSE "none"]

\* ---------------------------------------------------------- specifications

Handle(p) ==
    \/ StartCall(p)
    \/ InitTranscript(p)
    \/ InitLastQuestion(p)
    \/ InitSessionInfo(p)
    \/ ReadLastQuestion(p)
    \/ ReadTranscript(p)
    \/ WriteTranscript(p)
    \/ ExchangeCall(p)
    \/ SaveLastQuestion(p)
    \/ ScoreRead(p)
    \/ ScoreCall(p)
    \/ SaveReport(p)
    \/ SaveScoredAt(p)

\* The scripts and tests call the handlers one after the other; they pass
\* the reply they got last as last_agent_question, or nothing.
Begin(p) ==
    \E session_id \in SessionIds :
        \/ BeginStart(p, session_id)
        \/ BeginExchange(p, session_id, {Empty, clientLast[session_id]},
                         {Empty, AText(nreq + 1)})
        \/ BeginScore(p, session_id)

\* one request at a time, in slot 1
Next == (Begin(1) \/ Handle(1)) /\ Observe(1)

Spec == Init /\ [][Next]_vars

\* Requests that overlap: a request takes the first free slot while others
\* are still being served.
ConcBegin(p) ==
    /\ \A q \in 1..(p - 1) : InFlight(req[q])
    /\ \E session_id \in SessionIds :
          \/ BeginStart(p, session_id)
          \/ BeginExchange(p, session_id, {Empty}, {AText(nreq + 1)})

ConcNext ==
    /\ \E p \in Procs : ConcBegin(p) \/ Handle(p)
    /\ UNCHANGED <<before, hist, clientLast>>

ConcSpec == Init /\ [][ConcNext]_vars

\* A session that was started (the platform gave no first text) and has one
\* answer recorded.
RecordedSession ==
    [EmptySession EXCEPT
        !.keys = {"transcript", "last_agent_question", "session_info"},
        !.transcript = <<NewEntry(<<>>, StartFallback, AText(0))>>,
        !.last_agent_question = QText(0),
        !.session_info =
            [role |-> <<"I want to interview for the ", "Software Engineer", " role.">>,
             resume_summary |-> "", persona |-> "", difficulty |-> "Medium",
             started_at |-> 0, mode |-> ""]]

ScoreInit ==
    /\ db = [s \in SessionIds |-> RecordedSession]
    /\ req = [p \in Procs |-> IdleReq]
    /\ nreq = 0
    /\ nfail = 0
    /\ before = db
    /\ hist = [s \in SessionIds |->
                 [started |-> TRUE, exchanges |-> 1, answered |-> 1, replaced |-> TRUE]]
    /\ clientLast = [s \in SessionIds |-> QText(0)]

\* score requests, one after the other, on the recorded session; the model
\* answers with any of ObjectReplies
ScoreNext ==
    /\ \/ \E session_id \in SessionIds : BeginScore(1, session_id)
       \/ ScoreRead(1)
       \/ ScoreCallOf(1, ObjectReplies)
       \/ SaveReport(1)
       \/ SaveScoredAt(1)
    /\ Observe(1)

ScoreSpec == ScoreInit /\ [][ScoreNext]_vars

\* one score request on the recorded session; the model answers with any of
\* AllReplies
ExtractNext ==
    /\ \/ \E session_id \in SessionIds :
             req[1].pc = "idle" /\ BeginScore(1, session_id)
       \/ ScoreRead(1)
       \/ ScoreCallOf(1, AllReplies)
       \/ SaveReport(1)
       \/ SaveScoredAt(1)
    /\ Observe(1)

ExtractSpec == ScoreInit /\ [][ExtractNext]_vars

\* display names of intents, besides IntentNames: a keyword inside a longer
\* word, a keyword in capitals, the beginning of a keyword, and a keyword
\* with a space in it
MoreIntentNames ==
    { <<"W", "e", "e", "k", "e", "n", "d">>,
      <<"D", "O", "N", "E">>,
      <<"I", "n", "c", "o", "m", "p", "l", "e", "t", "e">>,
      <<"F", "i", "n", "i", "s", "h", "e", "d">>,
      <<"D", "o", "n">>,
      <<"E", "n", " ", "d">> }

\* One request of any kind, a direct call or an HTTP request, to a session
\* that is new or recorded.
RequestInit == Init \/ ScoreInit

RequestNext ==
    /\ \/ /\ req[1].pc = "idle"
          /\ \E session_id \in SessionIds :
                \/ BeginStart(1, session_id)
                \/ BeginExchange(1, session_id, {Empty}, {AText(nreq + 1)})
                \/ BeginSendAudio(1, session_id)
                \/ BeginScoreRoute(1, session_id)
       \/ StartCall(1)
       \/ InitTranscript(1)
       \/ InitLastQuestion(1)
       \/ InitSessionInfo(1)
       \/ ReadLastQuestion(1)
       \/ ReadTranscript(1)
       \/ WriteTranscript(1)
       \/ ExchangeCallOf(1, {NoIntent} \cup IntentNames \cup MoreIntentNames, BOOLEAN)
       \/ SaveLastQuestion(1)
       \/ ScoreRead(1)
       \/ ScoreCall(1)
       \/ SaveReport(1)
       \/ SaveScoredAt(1)
    /\ Observe(1)

RequestSpec == RequestInit /\ [][RequestNext]_vars

\* Exchanges and score requests on the recorded session, one after the
\* other: slot 1 serves the exchanges, slot 2 the score requests, so that
\* the last request of each kind stays visible.
SessionNext ==
    \/ /\ ~InFlight(req[2])
       /\ \/ \E session_id \in SessionIds :
                BeginExchange(1, session_id, {Empty}, {AText(nreq + 1)})
          \/ ReadLastQuestion(1)
          \/ ReadTranscript(1)
          \/ WriteTranscript(1)
          \/ ExchangeCall(1)
          \/ SaveLastQuestion(1)
       /\ Observe(1)
    \/ /\ ~InFlight(req[1])
       /\ \/ \E session_id \in SessionIds : BeginScore(2, session_id)
          \/ ScoreRead(2)
          \/ ScoreCall(2)
          \/ SaveReport(2)
          \/ SaveScoredAt(2)
       /\ Observe(2)

SessionSpec == ScoreInit /\ [][SessionNext]_vars

\* Two sessions: slot 1 serves the session s1, the other slots the session
\* s1_score, whose id begins with the id of the first.  The calls to the two
\* sessions interleave in any order, one call at a time.
SessionOf(p) == IF p = 1 THEN "s1" ELSE "s1_score"

TwoSessionIds == { SessionOf(p) : p \in Procs }

TwoInit ==
    /\ db = [s \in TwoSessionIds |-> EmptySession]
    /\ req = [p \in Procs |-> IdleReq]
    /\ nreq = 0
    /\ nfail = 0
    /\ before = db
    /\ hist = [s \in TwoSessionIds |-> NoHist]
    /\ clientLast = [s \in TwoSessionIds |-> Empty]

TwoBegin(p) ==
    /\ \A q \in Procs : ~InFlight(req[q])
    /\ \/ BeginStart(p, SessionOf(p))
       \/ BeginExchange(p, SessionOf(p), {Empty}, {AText(nreq + 1)})
       \/ BeginScore(p, SessionOf(p))

\* the platform answers with no intent or with the intent End; the model
\* with a well-formed object or with prose
TwoNext ==
    /\ \E p \in Procs :
          \/ TwoBegin(p)
          \/ StartCall(p)
          \/ InitTranscript(p)
          \/ InitLastQuestion(p)
          \/ InitSessionInfo(p)
          \/ ReadLastQuestion(p)
          \/ ReadTranscript(p)
          \/ WriteTranscript(p)
          \/ ExchangeCallOf(p, {NoIntent, <<"E", "n", "d">>}, {TRUE})
          \/ SaveLastQuestion(p)
          \/ ScoreRead(p)
          \/ ScoreCallOf(p, {Serialise(Good(1)), <<"p">>})
          \/ SaveReport(p)
          \/ SaveScoredAt(p)
    /\ UNCHANGED <<before, hist, clientLast>>

TwoSpec == TwoInit /\ [][TwoNext]_vars


\* ------------------------------------------------------------------ claims

Stored(s) == get_transcript(db, s)

Pending(s) == get_last_agent_question(db, s)

\* no request of the sequential caller is being served
Quiet == ~InFlight(req[1])

Numbered(transcript) == \A i \in 1..Len(transcript) : transcript[i].turn = i

IsPrefix(t, u) == Len(t) <= Len(u) /\ \A i \in 1..Len(t) : t[i] = u[i]

\* C1 as stated: after a start and N exchanges made one after the other, none
\* of which met an external failure, the stored transcript has exactly N
\* entries and its i-th entry has turn number i, for the text and for the
\* voice exchange.
C1_NEntriesAfterNExchanges ==
    \A s \in SessionIds :
        hist[s].started /\ Quiet =>
            Len(Stored(s)) = hist[s].exchanges /\ Numbered(Stored(s))

\* C1 amended: after a start and N exchanges made one after the other, none
\* of which met an external failure, the stored transcript has one entry per
\* exchange that carried an answer text (every text exchange; every voice
\* exchange whose speech-to-text result is not empty), and its i-th entry has
\* turn number i.
C1_OneEntryPerAnsweredExchange ==
    \A s \in SessionIds :
        hist[s].started /\ Quiet =>
            Len(Stored(s)) = hist[s].answered /\ Numbered(Stored(s))

C1_Witness ==
    \E s \in SessionIds :
        /\ hist[s].started /\ Quiet
        /\ hist[s].exchanges = 2
        /\ Len(Stored(s)) = 2

\* C2 as stated: under every sequence of start, exchange and score calls the
\* transcript of an earlier state is a prefix of the transcript of every
\* later state.
C2_AppendOnly ==
    [][\A s \in SessionIds : IsPrefix(Stored(s), get_transcript(db', s))]_vars

\* C2 amended: under calls made one after the other, every step leaves the
\* transcript of the earlier state a prefix of the transcript of the later
\* state, except the step of a start that initialises the transcript, which
\* sets it to the empty list.
C2_AppendOnlyBetweenStarts ==
    [][\A s \in SessionIds :
          \/ IsPrefix(Stored(s), get_transcript(db', s))
          \/ /\ req[1].pc = "init_transcript" /\ req[1].sid = s
             /\ get_transcript(db', s) = <<>>]_vars

C2_Witness ==
    \E s \in SessionIds :
        /\ Len(Stored(s)) = 2
        /\ Quiet

\* C3: in every reachable state, also when start and exchange requests for
\* the same session overlap, the turn numbers of the stored transcript are
\* 1..len(transcript) in list order.
C3_TurnsNumbered ==
    \A s \in SessionIds : Numbered(Stored(s))

C3_Witness ==
    \E s \in SessionIds :
        /\ InFlight(req[1]) /\ req[1].sid = s
        /\ req[2].paired /\ req[2].sid = s
        /\ Len(Stored(s)) >= 1


\* C4: two exchanges of one session that overlap can lose an update.  The
\* last writer wins: every transcript write that succeeds leaves as stored
\* transcript the list its request read earlier plus that request's own
\* Turn, whatever was stored in between.
C4_LastWriterWins ==
    [][\A p \in Procs :
          req[p].pc = "write_transcript" /\ req'[p].paired =>
              get_transcript(db', req[p].sid) =
                  Append(req[p].tr, [turn |-> Len(req[p].tr) + 1,
                                     question |-> req[p].laq,
                                     answer |-> Answer(req[p])])]_vars

\* two exchanges read the same transcript, both wrote their Turn and both
\* returned without error, and the transcript has gained one Turn only
C4_Witness ==
    /\ \A p \in {1, 2} :
          /\ req[p].pc = "done" /\ req[p].op \in ExchangeOps
          /\ req[p].status = "ok" /\ ~req[p].dbfail /\ req[p].paired
    /\ req[1].sid = req[2].sid
    /\ req[1].tr = req[2].tr
    /\ Len(Stored(req[1].sid)) = Len(req[1].tr) + 1

\* The request has contacted the platform / has written its Turn.
Contacted(r) == r.request.sent

\* C5 as stated: in every exchange for which a Pending Question exists, the
\* Turn is written before the request contacts the platform, in the text and
\* in the audio exchange.
C5_TurnBeforeCall ==
    \A p \in Procs :
        LET r == req[p]
        IN  r.op \in ExchangeOps /\ Contacted(r) /\ Truthy(r.laq) /\ ~r.dbfail
                => r.paired

\* C5 amended: in every text exchange for which a Pending Question exists
\* the Turn is written before the request contacts the platform; the audio
\* exchange writes its Turn only after the platform call, whose
\* speech-to-text result is the answer of the Turn.
C5_TextBeforeCallAudioAfter ==
    \A p \in Procs :
        LET r == req[p]
        IN  /\ r.op = "text" /\ Contacted(r) /\ Truthy(r.laq) /\ ~r.dbfail => r.paired
            /\ r.op = "audio" /\ r.pc \in {"write_transcript", "read_transcript"}
                   => Contacted(r)
            /\ r.op = "audio" /\ r.paired => Contacted(r)

C5_Witness ==
    /\ req[1].op = "text" /\ req[1].pc = "call"
    /\ req[1].paired /\ ~Contacted(req[1])

\* the exchange of slot 1 has returned the platform's failure
FailedExchange ==
    /\ req[1].pc = "done"
    /\ req[1].op \in ExchangeOps
    /\ req[1].status = "error"

\* C6 as stated: if the platform call of an exchange fails, the failure is
\* propagated, the stored transcript equals the transcript before the
\* exchange and the Pending Question is unchanged.
C6_FailedExchangeLosesPair ==
    FailedExchange =>
        /\ Stored(req[1].sid) = get_transcript(before, req[1].sid)
        /\ Pending(req[1].sid) = get_last_agent_question(before, req[1].sid)

\* C6 amended: if the platform call of an exchange fails, the failure is
\* propagated and the Pending Question is unchanged; after a failed audio
\* exchange the stored transcript equals the transcript before it; after a
\* failed text exchange the transcript keeps the Turn the exchange wrote
\* before the call (the transcript before it plus the pair of the Pending
\* Question and the answer), and equals the transcript before it only when
\* no Turn was written.
C6_FailedExchangeKeepsWrittenPair ==
    FailedExchange =>
        LET r == req[1]
            was == get_transcript(before, r.sid)
        IN  /\ Pending(r.sid) = get_last_agent_question(before, r.sid)
            /\ r.op = "audio" => ~r.paired
            /\ ~r.paired => Stored(r.sid) = was
            /\ r.paired =>
                  Stored(r.sid) = Append(was, [turn |-> Len(was) + 1,
                                               question |-> r.laq,
                                               answer |-> r.user_message])

C6_Witness ==
    /\ FailedExchange
    /\ req[1].op = "text" /\ req[1].paired
    /\ Len(Stored(req[1].sid)) = 2

\* no two Turns of the transcript have the same platform question
QuestionsPairedOnce(transcript) ==
    \A i, j \in 1..Len(transcript) :
        i # j /\ transcript[i].question[1] = "q"
            => transcript[i].question # transcript[j].question

\* C7 as stated: across exchanges made one after the other, each question
\* the platform produced is the question of at most one Turn.  Stated for
\* the sessions that were started and in which no external call has failed.
C7_QuestionPairedOnce ==
    \A s \in SessionIds :
        hist[s].started /\ nfail = 0 => QuestionsPairedOnce(Stored(s))

\* C7 amended: across exchanges made one after the other after a start, with
\* no external failure, each question the platform produced is the question
\* of at most one Turn as long as every exchange returned a new question (a
\* reply that is not empty, with is_end false); after an exchange that
\* returned no text or ended the interview the Pending Question stays and is
\* paired again with the next answer.
C7_PairedOnceWhileReplaced ==
    \A s \in SessionIds :
        hist[s].started /\ hist[s].replaced => QuestionsPairedOnce(Stored(s))

C7_Witness ==
    \E s \in SessionIds :
        /\ hist[s].started /\ hist[s].replaced /\ Quiet
        /\ Len(Stored(s)) = 2
        /\ Stored(s)[1].question[1] = "q"
        /\ Stored(s)[2].question[1] = "q"

\* the exchange of slot 1 has returned a reply, and no storage call failed
ExchangeDone ==
    /\ req[1].pc = "done"
    /\ req[1].op \in ExchangeOps
    /\ req[1].status = "ok"
    /\ ~req[1].dbfail

\* C8 as stated: after an exchange whose platform call and storage calls
\* succeed, the stored Pending Question equals the returned reply when is_end
\* is false, and is unchanged when is_end is true.
C8_PendingIsReply ==
    ExchangeDone =>
        LET r == req[1]
        IN  IF ~r.is_end
            THEN Pending(r.sid) = r.reply
            ELSE Pending(r.sid) = get_last_agent_question(before, r.sid)

\* C8 amended: after an exchange whose platform call and storage calls
\* succeed, the stored Pending Question equals the returned reply when is_end
\* is false and the reply is not empty, and is unchanged when is_end is true
\* or the reply is empty (the text exchange returns an empty reply as it is;
\* the audio exchange never returns one).
C8_PendingIsNonEmptyReply ==
    ExchangeDone =>
        LET r == req[1]
        IN  /\ r.op = "audio" => Truthy(r.reply)
            /\ IF ~r.is_end /\ Truthy(r.reply)
               THEN Pending(r.sid) = r.reply
               ELSE Pending(r.sid) = get_last_agent_question(before, r.sid)

C8_Witness ==
    /\ ExchangeDone
    /\ ~req[1].is_end /\ Truthy(req[1].reply)
    /\ Pending(req[1].sid) = req[1].reply
    /\ Truthy(get_last_agent_question(before, req[1].sid))
    /\ get_last_agent_question(before, req[1].sid) # req[1].reply

\* the start of slot 1 has returned a reply, and no storage call failed
StartDone ==
    /\ req[1].pc = "done"
    /\ req[1].op \in StartOps
    /\ req[1].status = "ok"
    /\ ~req[1].dbfail

\* C9: after a start whose platform call and storage writes succeed, the
\* returned reply is not empty (the platform's first text, or the fixed
\* fallback sentence), the stored Pending Question is that reply, the stored
\* transcript is the empty list and session info is stored.
C9_StartStores ==
    StartDone =>
        LET r == req[1]
        IN  /\ Truthy(r.reply)
            /\ r.reply = IF r.response.text # Empty THEN r.response.text ELSE StartFallback
            /\ "last_agent_question" \in db[r.sid].keys
            /\ db[r.sid].last_agent_question = r.reply
            /\ "transcript" \in db[r.sid].keys
            /\ db[r.sid].transcript = <<>>
            /\ "session_info" \in db[r.sid].keys
            /\ db[r.sid].session_info.role = r.args.role_selection

C9_Witness ==
    /\ StartDone
    /\ req[1].response.text = Empty
    /\ Len(get_transcript(before, req[1].sid)) > 0

ParameterNames ==
    {"candidate_resume_summary", "interviewer_persona", "difficulty_level", "role"}

\* C10: only start requests carry session parameters to the platform: no
\* request an exchange sends has a resume, persona, difficulty or role
\* parameter, however many exchanges follow the start.
C10_OnlyStartSendsParameters ==
    \A p \in Procs :
        LET r == req[p]
        IN  Contacted(r) /\ r.op \in ExchangeOps =>
                \A kv \in r.request.query_params : kv[1] \notin ParameterNames

C10_Witness ==
    /\ req[1].op \in ExchangeOps /\ Contacted(req[1])
    /\ hist[req[1].sid].started
    /\ hist[req[1].sid].exchanges >= 1

\* ---------------------------------------------------------- claims: start

\* what the caller of a start supplied for the three settings: the fields of
\* the request body with the defaults of the route, or the arguments
Supplied(r) ==
    IF r.body # {}
    THEN [resume_summary |-> Get(r.body, "resumeText", ""),
          persona |-> Get(r.body, "persona", ""),
          difficulty |-> Get(r.body, "difficulty", "Medium")]
    ELSE [resume_summary |-> r.args.resume_summary,
          persona |-> r.args.persona,
          difficulty |-> r.args.difficulty]

Scored == req[1].op = "score" /\ req[1].pc = "done" /\ req[1].replies = 1

\* C15: if the object parsed from the model reply lacks overall_score or
\* summary, or has no question_scores list or an empty one, score fails with
\* the field-missing error and the stored score report is as it was; so
\* every stored score report has the three fields and a list that is not
\* empty.
C15_MissingFieldFails ==
    /\ LET r == req[1]
           parsed == Extract(r.response.text)
       IN  Scored /\ parsed.ok /\ parsed.dict /\ ~Valid(parsed.value) =>
               /\ r.status = "error" /\ r.error = "missing_field"
               /\ db = before
    /\ \A s \in SessionIds :
           "score_report" \in db[s].keys =>
               /\ {"overall_score", "summary", "question_scores"}
                      \subseteq db[s].score_report.keys
               /\ Len(db[s].score_report.question_scores) >= 1

C15_Witness ==
    /\ Scored /\ req[1].error = "missing_field"
    /\ "overall_score" \notin req[1].score_data.keys
    /\ "score_report" \in db[req[1].sid].keys

\* C16: a parsed reply that has the required fields but whose question_scores
\* list is not as long as the transcript (and not empty) does not abort
\* scoring: score returns the object, and stores it when storage works.
C16_CountMismatchNotFatal ==
    LET r == req[1]
        parsed == Extract(r.response.text)
    IN  Scored /\ parsed.ok /\ parsed.dict /\ Valid(parsed.value)
            /\ Len(parsed.value.question_scores) # Len(r.tr) =>
                /\ r.status = "ok" /\ r.score_data = parsed.value
                /\ ~r.dbfail =>
                      /\ "score_report" \in db[r.sid].keys
                      /\ db[r.sid].score_report = parsed.value

C16_Witness ==
    /\ Scored /\ req[1].status = "ok" /\ ~req[1].dbfail
    /\ Len(req[1].score_data.question_scores) = Len(req[1].tr) + 1
    /\ db[req[1].sid].score_report = req[1].score_data

\* ----------------------------------------------------- claims: extraction

\* C17 as stated: the candidates (fenced block, first brace span, whole
\* reply) are tried in order until one parses; a candidate that is present
\* but does not parse makes the extraction go on to the next, and scoring
\* fails with a parse error only when the whole reply does not parse.
C17_FallsThroughToNextCandidate ==
    LET r == req[1]
        claimed == ExtractFallingThrough(r.response.text)
    IN  Scored =>
            /\ (r.error = "parse") = ~claimed.ok
            /\ r.status = "ok" => r.score_data = claimed.value

\* C17 amended: the extraction parses one candidate only, the first that is
\* present: the brace span of a fenced block (labelled json or not) if the
\* reply has one, else the first brace span (with at most one level of
\* nesting) if it has one, else the whole reply.  If that candidate does not
\* parse, scoring fails with the parse error, also when a later candidate
\* would have parsed.
C17_ParsesFirstPresentCandidate ==
    LET r == req[1]
        A == Atoms(r.response.text)
        chosen == IF FencedBlock(A) # <<>>
                  THEN LoadSpan(r.response.text, A, FencedBlock(A))
                  ELSE IF BraceSpan(A) # <<>>
                       THEN LoadSpan(r.response.text, A, BraceSpan(A))
                       ELSE json_loads(r.response.text)
    IN  Scored =>
            /\ (r.error = "parse") = ~chosen.ok
            /\ r.status = "ok" => r.score_data = chosen.value

C17_Witness ==
    /\ Scored /\ req[1].error = "parse"
    /\ FencedBlock(Atoms(req[1].response.text)) # <<>>
    /\ ExtractFallingThrough(req[1].response.text).ok

\* the reply is o in a fenced block labelled json, with or without prose
\* before and after
InFencedBlock(response_text, o) ==
    \E pre \in Prose, post \in Prose :
        response_text = pre \o Fenced(Serialise(o)) \o post

MinScore == 1

MaxScore == 10

InBounds(score) == MinScore <= score /\ score <= MaxScore

\* C20: every score report a successful score_interview call returns has
\* its scores within bounds: 1 <= score <= 10 for each entry of
\* question_scores and for overall_score, whatever the model replied.
C20_ScoresInBounds ==
    LET r == req[1]
    IN  r.op = "score" /\ r.pc = "done" /\ r.status = "ok" =>
            /\ InBounds(r.score_data.overall_score)
            /\ \A i \in 1..Len(r.score_data.question_scores) :
                   InBounds(r.score_data.question_scores[i])

\* ------------------------------------------------- claims: session states

\* C21: scoring may be entered and re-entered at any point once a Turn
\* exists: whenever the transcript has an entry, whether or not the last
\* exchange signalled the end and whether or not a score report is stored, a
\* score request reaches the model (unless reading the transcript fails) and
\* succeeds with the parsed object when the model's reply is well-formed;
\* and an exchange made after scoring still returns the platform's reply.
C21_ScoreAtAnyPoint ==
    LET r == req[2]
        x == req[1]
        parsed == Extract(r.response.text)
    IN  /\ r.op = "score" /\ r.pc = "done"
               /\ Len(get_transcript(before, r.sid)) >= 1 =>
                   /\ r.error # "no_transcript"
                   /\ r.calls = 0 => r.error = "fetch" /\ r.dbfail
                   /\ r.replies = 1 /\ parsed.ok /\ parsed.dict /\ Valid(parsed.value) =>
                         r.status = "ok" /\ r.score_data = parsed.value
        /\ x.op \in ExchangeOps /\ x.pc = "done" /\ x.replies = 1 =>
               x.status = "ok" /\ x.reply = ExchangeReply(x.op, x.response.text)

\* a score request succeeded for the second time, after an exchange that
\* followed the first scoring, recorded a Turn and signalled the end
C21_Witness ==
    /\ req[2].op = "score" /\ req[2].pc = "done" /\ req[2].status = "ok"
    /\ "score_report" \in before[req[2].sid].keys
    /\ req[1].op \in ExchangeOps /\ req[1].pc = "done" /\ req[1].status = "ok"
    /\ req[1].n < req[2].n
    /\ req[1].is_end /\ req[1].paired
    /\ Len(Stored(req[2].sid)) = 2

\* ----------------------------------------------------- claims: HTTP routes

\* data[key] is there and is not the empty string
Present(data, key) == Has(data, key) /\ Get(data, key, "") # ""

\* a required field of the HTTP request is absent: session_id or role of a
\* start, session_id or the audio (the uploaded file, or the base64 text) of
\* an exchange, session_id of a score request
MissingField(r) ==
    CASE r.route = "start" ->
             ~Present(r.body, "session_id") \/ ~Present(r.body, "role")
      [] r.route = "send_audio" ->
             \/ ~Present(r.body, "session_id")
             \/ ~(Has(r.files, "audio") \/ Present(r.body, "audio"))
      [] r.route = "score" -> ~Present(r.body, "session_id")
      [] OTHER -> FALSE

\* C22: input validation precedes every side effect: an HTTP request that
\* lacks a required field has ended with status 400 and an error body, with
\* no platform call, no model call and no storage access (the store is as
\* the request found it and no storage call was made, none failed).
C22_ValidationBeforeEffects ==
    \A p \in Procs :
        LET r == req[p]
        IN  r.route # "none" /\ MissingField(r) =>
                /\ r.pc = "done"
                /\ HttpResponse(r).status = 400
                /\ HttpResponse(r).error # "none"
                /\ r.calls = 0 /\ ~r.request.sent
                /\ ~r.dbfail /\ nfail = 0
                /\ ~r.paired /\ r.tr = <<>> /\ r.laq = Empty
                /\ db = before

\* an exchange for a recorded session was sent without its audio
C22_Witness ==
    /\ req[1].route = "send_audio" /\ req[1].pc = "done"
    /\ Present(req[1].body, "session_id")
    /\ ~Has(req[1].files, "audio") /\ ~Present(req[1].body, "audio")
    /\ HttpResponse(req[1]).status = 400
    /\ Len(Stored(req[1].sid)) = 1

\* the request send_audio was given, as it stays in the request's fields
Upload(r) == [content_type |-> r.content_type, files |-> r.files, data |-> r.body]

\* the outcomes of an HTTP request that has ended
PlatformFailed(r) == r.op \in StartOps \cup ExchangeOps /\ r.calls = 1 /\ r.replies = 0

ModelFailed(r) == r.op = "score" /\ r.calls = 1 /\ r.replies = 0

Unparsable(r) == r.op = "score" /\ r.replies = 1 /\ ~Extract(r.response.text).ok

NotAnObject(r) ==
    /\ r.op = "score" /\ r.replies = 1
    /\ Extract(r.response.text).ok /\ ~Extract(r.response.text).dict

ScoreFieldMissing(r) ==
    /\ r.op = "score" /\ r.replies = 1
    /\ Extract(r.response.text).ok /\ Extract(r.response.text).dict
    /\ ~Valid(Extract(r.response.text).value)

NothingToScore(r) ==
    r.op = "score" /\ r.calls = 0 /\ ~r.dbfail /\ Len(get_transcript(before, r.sid)) = 0

TranscriptUnread(r) == r.op = "score" /\ r.calls = 0 /\ r.dbfail

InputUnreadable(r) == r.route = "send_audio" /\ SendAudioRaises(Upload(r))

IsAudio(v) == v # Empty /\ v[1] \in {"audio", "tts"}

\* C24: audio is never persisted: no stored Turn, Pending Question, session
\* info or score report is or holds the audio of a request or synthesised
\* speech; and the answer of the Turn an audio exchange records is the
\* speech-to-text text the platform returned for that request.
C24_AudioNeverStored ==
    /\ \A s \in SessionIds :
          /\ ~IsAudio(db[s].last_agent_question)
          /\ \A i \in 1..Len(db[s].transcript) :
                /\ ~IsAudio(db[s].transcript[i].question)
                /\ ~IsAudio(db[s].transcript[i].answer)
          /\ "session_info" \in db[s].keys =>
                /\ ~IsAudio(db[s].session_info.role)
                /\ db[s].session_info.resume_summary \in {"", "Expert in Python"}
          /\ "score_report" \in db[s].keys =>
                db[s].score_report.summary \in {"ok", "tricky"}
    /\ \A p \in Procs :
          LET r == req[p]
              transcript == Stored(r.sid)
          IN  r.op = "audio" /\ r.paired =>
                  /\ Truthy(r.response.query_text)
                  /\ transcript[Len(transcript)].answer = r.response.query_text

\* an audio exchange sent as base64 has recorded its Turn, and the platform
\* answered with speech
C24_Witness ==
    /\ req[1].route = "send_audio" /\ req[1].content_type = "application/json"
    /\ req[1].pc = "done" /\ req[1].paired
    /\ IsAudio(req[1].audio_data) /\ IsAudio(req[1].response.output_audio)
    /\ Len(Stored(req[1].sid)) = 2

\* the letters str.lower() changes, and what it makes of them
Capitals == <<"C", "D", "E", "F", "I", "N", "O", "W">>

Smalls == <<"c", "d", "e", "f", "i", "n", "o", "w">>

Fold(c) ==
    IF \E i \in 1..Len(Capitals) : Capitals[i] = c
    THEN Smalls[CHOOSE i \in 1..Len(Capitals) : Capitals[i] = c]
    ELSE c

\* some run of consecutive characters of the name, compared without regard
\* to case, is a keyword
HasKeyword(name) ==
    \E i \in 1..Len(name), j \in 1..Len(name) :
        i <= j /\ [k \in 1..(j - i + 1) |-> Fold(name[i + k - 1])] \in Keywords

\* C26: the is_end flag of an exchange, text or audio, is true if and only
\* if the intent name the platform returned contains end, complete, finish
\* or done as a substring, compared case-insensitively; it is false when the
\* platform returned no intent.
C26_IsEndIffKeyword ==
    \A p \in Procs :
        LET r == req[p]
        IN  r.op \in ExchangeOps /\ r.replies = 1 =>
                /\ r.is_end = HasKeyword(r.response.intent)
                /\ r.response.intent = NoIntent => ~r.is_end

\* an audio exchange ended on an intent that has a keyword inside a longer
\* word, in capitals
C26_Witness ==
    /\ req[1].op = "audio" /\ req[1].pc = "done" /\ req[1].is_end
    /\ req[1].response.intent = <<"D", "O", "N", "E">>

\* C28: the audio encoding and the sample rate selected for an exchange (the
\* caller's, or the default of the file's extension) are the encoding and
\* the sample rate of the request sent to the platform.
C28_SelectedEncodingIsSent ==
    \A p \in Procs :
        LET r == req[p]
        IN  r.op = "audio" /\ Contacted(r) =>
                /\ r.request.audio_encoding = AudioEncoding(r.audio_encoding)
                /\ r.request.sample_rate = r.sample_rate

\* --------------------------------------------- claims: sessions and frames

\* no start was made for the session: nothing failed and no session info is
\* stored
NeverStarted(s) == nfail = 0 /\ "session_info" \notin db[s].keys

Recorded(session) ==
    [keys |-> session.keys \ {"score_report", "scored_at"},
     transcript |-> session.transcript,
     last_agent_question |-> session.last_agent_question,
     session_info |-> session.session_info]

\* C27: scoring only reads the recorded transcript: no step of a score call,
\* whether the call succeeds or fails, changes the transcript, the Pending
\* Question or the session info of any session, and a score call sends
\* nothing to the dialogue platform; it writes the score report and the
\* scoring time only.
C27_ScoreWritesReportOnly ==
    [][req'[2] # req[2] =>
          /\ \A s \in SessionIds : Recorded(db'[s]) = Recorded(db[s])
          /\ req'[2].op = "score"
          /\ ~req'[2].request.sent]_vars

\* a score call has stored its report and the scoring time next to a
\* transcript of two Turns and a Pending Question
C27_Witness ==
    /\ req[2].op = "score" /\ req[2].pc = "done" /\ req[2].status = "ok"
    /\ {"score_report", "scored_at"} \subseteq db[req[2].sid].keys
    /\ db[req[2].sid].score_report = req[2].score_data
    /\ Len(Stored(req[2].sid)) = 2
    /\ Recorded(db[req[2].sid]) = Recorded(before[req[2].sid])

\* no two pairs of session id and key have the same address
Distinct(address(_, _)) ==
    \A s, t \in TwoSessionIds, k, l \in Keys :
        address(s, k) = address(t, l) => s = t /\ k = l

\* C29: sessions are isolated in the store: with calls to two sessions in
\* any order, no step of a call made with one session id changes anything
\* stored for another session id; the keys `<session_id>_<field>` of the
\* key-value backend and the documents and fields of the document backend
\* are distinct for distinct sessions or fields.
C29_SessionsIsolated ==
    /\ Distinct(db_key)
    /\ Distinct(doc_ref)
    /\ [][\A p \in Procs :
             req'[p] # req[p] =>
                 \A t \in TwoSessionIds : t # req'[p].sid => db'[t] = db[t]]_vars

\* one session has a Turn recorded without a start, the other was started
C29_Witness ==
    /\ Len(db["s1"].transcript) = 1
    /\ "session_info" \notin db["s1"].keys
    /\ "session_info" \in db["s1_score"].keys
    /\ db["s1_score"].transcript = <<>>

\* C30: the audio exchange appends a Turn if and only if a Pending Question
\* is available and the speech-to-text text is not empty; otherwise the
\* transcript is left unchanged.  Either way the request succeeds, and the
\* reply (the fixed "I didn't catch that" sentence when the platform gives
\* no text) is stored as the new Pending Question unless is_end is true.
\* Stated for the exchanges in which no storage call fails.
C30_AudioAppendsIff ==
    LET r == req[1]
        was == get_transcript(before, r.sid)
    IN  r.op = "audio" /\ r.pc = "done" /\ r.replies = 1 =>
            /\ r.status = "ok"
            /\ r.reply = IF Truthy(r.response.text) THEN r.response.text ELSE AudioFallback
            /\ ~r.dbfail =>
                  /\ r.paired = (Truthy(r.laq) /\ Truthy(r.response.query_text))
                  /\ r.paired =>
                        Stored(r.sid) = Append(was, [turn |-> Len(was) + 1,
                                                     question |-> r.laq,
                                                     answer |-> r.response.query_text])
                  /\ ~r.paired => Stored(r.sid) = was
                  /\ Pending(r.sid) = IF r.is_end
                                      THEN get_last_agent_question(before, r.sid)
                                      ELSE r.reply

\* an audio exchange with a Pending Question got no speech-to-text text and
\* no reply text: no Turn, and the fallback sentence is the Pending Question
C30_Witness ==
    /\ req[1].op = "audio" /\ req[1].pc = "done" /\ req[1].status = "ok"
    /\ ~req[1].dbfail /\ ~req[1].paired
    /\ Truthy(req[1].laq) /\ ~Truthy(req[1].response.query_text)
    /\ Len(Stored(req[1].sid)) = 1
    /\ req[1].reply = AudioFallback
    /\ Pending(req[1].sid) = AudioFallback

====
